---- MODULE Spec2Model ----
(***************************************************************************)
(* SqliteStorage (lib/storage.js): the per-channel message DAG store, its  *)
(* leaf computation, the (height, hash) ordered windows, the cursor query  *)
(* and the batched lookup, over the three SQLite tables the class creates. *)
(*                                                                         *)
(* A table is the sequence of its rows in rowid order: REPLACE INTO        *)
(* deletes the row that holds the key and appends the new row.  A hash or  *)
(* any other Buffer is a sequence of bytes (0..255).                       *)
(***************************************************************************)
EXTENDS Integers, Sequences, FiniteSets, TLC

VARIABLES messages, parents, entities, transaction, result, user_version, pc,
          queue, journal

vars == <<messages, parents, entities, transaction, result, user_version, pc,
          queue, journal>>

\* user_version is the PRAGMA of the file; pc is the position of open();
\* queue holds the statements handed to the connection and not yet run;
\* journal holds the tables as of the BEGIN of the open transaction
\* this.db as the methods read it: the three tables of createTables
DB == [messages |-> messages, parents |-> parents, entities |-> entities]

-----------------------------------------------------------------------------
(* Program constants *)

MAX_VARIABLE_COUNT == 900

CURRENT_VERSION == 2

\* 0xff, the longest hash encodeHashList accepts
MAX_HASH_LENGTH == 255

-----------------------------------------------------------------------------
(* JavaScript values that are not Buffers *)

null == <<-1>>

undefined == <<-2>>

Min(x, y) == IF x < y THEN x ELSE y

Max(x, y) == IF x < y THEN y ELSE x

\* Buffer.compare(a, b) and SQLite's BLOB comparison: memcmp over the common
\* prefix, then the shorter one first
compare(a, b) ==
  LET n == Min(Len(a), Len(b))
      diff == {i \in 1..n : a[i] # b[i]}
  IN  IF diff = {}
        THEN (IF Len(a) < Len(b) THEN -1 ELSE IF Len(a) > Len(b) THEN 1 ELSE 0)
        ELSE LET i == CHOOSE k \in diff : \A l \in diff : k <= l
             IN  IF a[i] < b[i] THEN -1 ELSE 1

-----------------------------------------------------------------------------
(* Hash list codec *)

RECURSIVE encodeFrom(_, _)
\* the second loop of encodeHashList: one length byte, then the bytes
encodeFrom(list, k) ==
  IF k > Len(list) THEN <<>>
  ELSE <<Len(list[k]) % 256>> \o list[k] \o encodeFrom(list, k + 1)

\* encodeHashList(list): "throw" when some element is longer than 0xff
encodeThrows(list) == \E k \in 1..Len(list) : Len(list[k]) > MAX_HASH_LENGTH

encodeHashList(list) == encodeFrom(list, 1)

RECURSIVE decodeFromDroppingEmpty(_, _)
\* a decoder that does not push the hashes of length 0
decodeFromDroppingEmpty(data, offset) ==
  IF offset >= Len(data) THEN <<>>
  ELSE LET len == data[offset + 1]
           hash == SubSeq(data, offset + 2, Min(offset + 1 + len, Len(data)))
       IN  (IF len = 0 THEN <<>> ELSE <<hash>>)
             \o decodeFromDroppingEmpty(data, offset + 1 + len)

RECURSIVE decodeFrom(_, _)
\* the loop of decodeHashList from byte offset `offset` (0-based); slice
\* clamps at the end of the buffer
decodeFrom(data, offset) ==
  IF offset >= Len(data) THEN <<>>
  ELSE LET len == data[offset + 1]
           hash == SubSeq(data, offset + 2, Min(offset + 1 + len, Len(data)))
       IN  <<hash>> \o decodeFrom(data, offset + 1 + len)

decodeHashList(data) == decodeFrom(data, 0)

-----------------------------------------------------------------------------
(* The tables.  messages: rows [channel_id, hash, parent_hashes, height,   *)
(* blob] in rowid order, PRIMARY KEY(hash).  parents: rows [channel_id,    *)
(* hash], PRIMARY KEY(hash); no statement reads their order, so the table  *)
(* is the set of its rows.  entities: rows [prefix, id, blob], UNIQUE      *)
(* (prefix, id), a set likewise.                                           *)

Range(s) == {s[i] : i \in DOMAIN s}

\* REPLACE INTO messages (...) VALUES (...)
replaceIntoMessages(tbl, row) ==
  Append(SelectSeq(tbl, LAMBDA r : r.hash # row.hash), row)

\* REPLACE INTO parents (channel_id, hash) VALUES ($channelId, $hash)
replaceIntoParents(tbl, channelId, hash) ==
  {p \in tbl : p.hash # hash} \cup {[channel_id |-> channelId, hash |-> hash]}

RECURSIVE replaceParentsFrom(_, _, _, _)
\* for (const parentHash of message.parents) { REPLACE INTO parents ... }
replaceParentsFrom(tbl, channelId, list, k) ==
  IF k > Len(list) THEN tbl
  ELSE replaceParentsFrom(replaceIntoParents(tbl, channelId, list[k]),
                          channelId, list, k + 1)

\* ORDER BY height ASC alone: equal heights stay in rowid order
heightAscOnly(x, y) == x.height < y.height

\* ORDER BY height ASC, hash ASC
heightHashAsc(x, y) ==
  \/ x.height < y.height
  \/ x.height = y.height /\ compare(x.hash, y.hash) < 0

\* ORDER BY height DESC alone: equal heights stay in rowid order
heightDescOnly(x, y) == x.height > y.height

\* ORDER BY height DESC, hash DESC
heightHashDesc(x, y) ==
  \/ x.height > y.height
  \/ x.height = y.height /\ compare(x.hash, y.hash) > 0

\* ORDER BY hash
hashAsc(x, y) == compare(x.hash, y.hash) < 0

\* LIMIT $limit OFFSET $offset: a negative limit is no limit, a negative
\* offset is 0
limitOffset(rows, limit, offset) ==
  LET from == Max(0, offset)
      to == IF limit < 0 THEN Len(rows) ELSE Min(Len(rows), from + limit)
  IN  SubSeq(rows, from + 1, to)

hashesOf(rows) == [i \in DOMAIN rows |-> rows[i].hash]

-----------------------------------------------------------------------------
(* Messages *)

\* the statements of addMessage between BEGIN and COMMIT
addMessage(db, message) ==
  LET row == [channel_id |-> message.channelId,
              hash |-> message.hash,
              parent_hashes |-> encodeHashList(message.parents),
              height |-> message.height,
              blob |-> message.data]
  IN  [db EXCEPT
         !.messages = replaceIntoMessages(db.messages, row),
         !.parents = replaceParentsFrom(db.parents, message.channelId,
                                        message.parents, 1)]

getMessageCount(db, channelId) ==
  Len(SelectSeq(db.messages, LAMBDA r : r.channel_id = channelId))

\* the rows leave a SELECT without ORDER BY in an order SQLite does not
\* promise: the result is read as the set of its hashes
getLeafHashes(db, channelId) ==
  LET referenced == {p.hash : p \in {q \in db.parents : q.channel_id = channelId}}
  IN  {r.hash : r \in {m \in Range(db.messages) :
                         m.channel_id = channelId /\ m.hash \notin referenced}}

hasMessage(db, channelId, hash) ==
  Len(SelectSeq(db.messages,
        LAMBDA r : r.channel_id = channelId /\ r.hash = hash)) # 0

getMessage(db, channelId, hash) ==
  LET rows == SelectSeq(db.messages,
                LAMBDA r : r.channel_id = channelId /\ r.hash = hash)
  IN  IF Len(rows) > 0 THEN rows[1].blob ELSE undefined

getHashesAtOffset(db, channelId, offset, limit) ==
  LET rows == SortSeq(SelectSeq(db.messages, LAMBDA r : r.channel_id = channelId),
                      heightHashAsc)
  IN  hashesOf(limitOffset(rows, limit, offset))

getReverseHashesAtOffset(db, channelId, offset, limit) ==
  LET rows == SortSeq(SelectSeq(db.messages, LAMBDA r : r.channel_id = channelId),
                      heightHashDesc)
  IN  hashesOf(limitOffset(rows, limit, offset))

\* DELETE FROM parents without its WHERE clause
removeChannelMessagesAndEveryEdge(db, channelId) ==
  [db EXCEPT
     !.messages = SelectSeq(db.messages, LAMBDA r : r.channel_id # channelId),
     !.parents = {}]

removeChannelMessages(db, channelId) ==
  [db EXCEPT
     !.messages = SelectSeq(db.messages, LAMBDA r : r.channel_id # channelId),
     !.parents = {p \in db.parents : p.channel_id # channelId}]

\* hashes.slice(offset, offset + MAX_VARIABLE_COUNT), offset 0-based
slice(list, from, to) == SubSeq(list, from + 1, Min(to, Len(list)))

\* SELECT blob FROM messages WHERE channel_id == ? AND hash IN (...)
\* ORDER BY hash
selectBlobsIn(db, channelId, partialHashes) ==
  LET wanted == Range(partialHashes)
  IN  SortSeq(SelectSeq(db.messages,
                LAMBDA r : r.channel_id = channelId /\ r.hash \in wanted),
              hashAsc)

RECURSIVE lookupFrom(_, _, _, _)
\* the chunk loop of getMessages: rows = rows.concat(partial)
lookupFrom(db, channelId, hashes, offset) ==
  IF offset >= Len(hashes) THEN <<>>
  ELSE selectBlobsIn(db, channelId,
                     slice(hashes, offset, offset + MAX_VARIABLE_COUNT))
       \o lookupFrom(db, channelId, hashes, offset + MAX_VARIABLE_COUNT)

\* the indices of hashes (1-based), sorted by Buffer.compare of their hashes
sortedOrder(hashes) ==
  SortSeq([i \in DOMAIN hashes |-> i],
          LAMBDA i, j : compare(hashes[i], hashes[j]) < 0)

\* getMessages: threw is the TypeError of rows[i].blob on a missing row
getMessages(db, channelId, hashes) ==
  LET order == sortedOrder(hashes)
      rows == lookupFrom(db, channelId, hashes, 0)
  IN  IF Len(rows) < Len(hashes)
        THEN [threw |-> TRUE, value |-> <<>>]
        ELSE [threw |-> FALSE,
              value |-> [target \in DOMAIN hashes |->
                           rows[CHOOSE i \in DOMAIN order : order[i] = target].blob]]

-----------------------------------------------------------------------------
(* Cursor query.  A cursor is [hash |-> h] or [height |-> n]. *)

reverse(rows) == [i \in DOMAIN rows |-> rows[Len(rows) + 1 - i]]

\* the backward WHERE clause with <= for <: the anchor is selected too
uptoOriginal(m, original) ==
  \/ m.height < original.height
  \/ m.height = original.height /\ compare(m.hash, original.hash) <= 0

\* the WHERE clause of the join with `original`, backward
beforeOriginal(m, original) ==
  \/ m.height < original.height
  \/ m.height = original.height /\ compare(m.hash, original.hash) < 0

\* the forward WHERE clause with > for >=: the anchor is not selected
afterOriginal(m, original) ==
  \/ m.height > original.height
  \/ m.height = original.height /\ compare(m.hash, original.hash) > 0

\* the WHERE clause of the join with `original`, forward
fromOriginal(m, original) ==
  \/ m.height > original.height
  \/ m.height = original.height /\ compare(m.hash, original.hash) >= 0

\* db.allAsync(command, params) of query, LIMIT limit + 1
queryRows(db, channelId, cursor, isBackward, limit) ==
  LET inChannel == SelectSeq(db.messages, LAMBDA r : r.channel_id = channelId)
      originals(m) == {o \in Range(db.messages) :
                         o.channel_id = m.channel_id /\ o.hash = cursor.hash}
      selected ==
        IF "hash" \in DOMAIN cursor
          THEN IF isBackward
                 THEN SelectSeq(inChannel,
                        LAMBDA m : \E o \in originals(m) : beforeOriginal(m, o))
                 ELSE SelectSeq(inChannel,
                        LAMBDA m : \E o \in originals(m) : fromOriginal(m, o))
          ELSE SelectSeq(inChannel, LAMBDA m : m.height >= cursor.height)
      ordered == IF isBackward THEN SortSeq(selected, heightHashDesc)
                               ELSE SortSeq(selected, heightHashAsc)
  IN  limitOffset(ordered, limit + 1, 0)

abbreviate(rows) ==
  [i \in DOMAIN rows |->
     [hash |-> rows[i].hash, parents |-> decodeHashList(rows[i].parent_hashes)]]

\* forwardHash taken from the last row of the page, not from the row dropped
queryPageForwardAtLastOfPage(db, channelId, cursor, isBackward, limit) ==
  LET fetched == queryRows(db, channelId, cursor, isBackward, limit)
      rows == IF isBackward THEN reverse(fetched) ELSE fetched
      all == abbreviate(rows)
  IN  IF isBackward
        THEN [threw |-> FALSE, statements |-> 1,
              abbreviatedMessages |->
                IF Len(rows) > limit THEN SubSeq(all, 2, Len(all)) ELSE all,
              backwardHash |-> IF Len(rows) > limit THEN rows[1].hash ELSE null,
              forwardHash |-> cursor.hash]
        ELSE [threw |-> FALSE, statements |-> 1,
              abbreviatedMessages |->
                IF Len(rows) > limit THEN SubSeq(all, 1, Len(all) - 1) ELSE all,
              backwardHash |-> IF Len(rows) > 0 THEN rows[1].hash ELSE null,
              forwardHash |->
                IF Len(rows) > limit /\ Len(rows) > 1
                  THEN rows[Len(rows) - 1].hash ELSE null]

\* query from `rows = await this.db.allAsync(command, params)` to the return
queryPage(db, channelId, cursor, isBackward, limit) ==
  LET fetched == queryRows(db, channelId, cursor, isBackward, limit)
      rows == IF isBackward THEN reverse(fetched) ELSE fetched
      all == abbreviate(rows)
  IN  IF isBackward
        THEN [threw |-> FALSE, statements |-> 1,
              abbreviatedMessages |->
                IF Len(rows) > limit THEN SubSeq(all, 2, Len(all)) ELSE all,
              backwardHash |-> IF Len(rows) > limit THEN rows[1].hash ELSE null,
              forwardHash |-> cursor.hash]
        ELSE [threw |-> FALSE, statements |-> 1,
              abbreviatedMessages |->
                IF Len(rows) > limit THEN SubSeq(all, 1, Len(all) - 1) ELSE all,
              backwardHash |-> IF Len(rows) > 0 THEN rows[1].hash ELSE null,
              forwardHash |->
                IF Len(rows) > limit THEN rows[Len(rows)].hash ELSE null]

\* a height cursor read backward as a forward one instead of being refused
queryHeightBackwardAsForward(db, channelId, cursor, isBackward, limit0) ==
  queryPage(db, channelId, cursor, isBackward /\ "hash" \in DOMAIN cursor,
            Max(0, limit0))

\* query(channelId, cursor, isBackward, limit); statements counts the
\* statements handed to the engine, threw is the Error of line 292
query(db, channelId, cursor, isBackward, limit0) ==
  IF "hash" \notin DOMAIN cursor /\ isBackward
    THEN [threw |-> TRUE, statements |-> 0, abbreviatedMessages |-> <<>>,
          backwardHash |-> null, forwardHash |-> null]
    ELSE queryPage(db, channelId, cursor, isBackward, Max(0, limit0))

-----------------------------------------------------------------------------
(* The statements of the two transactions, as db.serialize() queues them   *)
(* on the connection.  A statement is [run, call, hash]: what it runs, the *)
(* call that handed it over and, for an edge, the parent hash.             *)

\* the row of REPLACE INTO messages
rowOf(message) ==
  [channel_id |-> message.channelId,
   hash |-> message.hash,
   parent_hashes |-> encodeHashList(message.parents),
   height |-> message.height,
   blob |-> message.data]

statement(run, call, hash) == [run |-> run, call |-> call, hash |-> hash]

\* addMessage without its BEGIN TRANSACTION and COMMIT TRANSACTION
addMessageStatementsOutsideTransaction(message) ==
  LET call == [op |-> "addMessage", message |-> message]
  IN  <<statement("REPLACE INTO messages", call, null)>>
        \o [k \in 1..Len(message.parents) |->
              statement("REPLACE INTO parents", call, message.parents[k])]

\* the serialize callback of addMessage, which runs without a break
addMessageStatements(message) ==
  LET call == [op |-> "addMessage", message |-> message]
  IN  <<statement("BEGIN", call, null),
        statement("REPLACE INTO messages", call, null)>>
        \o [k \in 1..Len(message.parents) |->
              statement("REPLACE INTO parents", call, message.parents[k])]
        \o <<statement("COMMIT", call, null)>>

\* the serialize callback of removeChannelMessages
removeChannelMessagesStatements(channelId) ==
  LET call == [op |-> "removeChannelMessages", channelId |-> channelId]
  IN  <<statement("BEGIN", call, null),
        statement("DELETE FROM messages", call, null),
        statement("DELETE FROM parents", call, null),
        statement("COMMIT", call, null)>>

\* the SELECT of getLeafHashes or of getMessageCount
select(db, op, channelId) ==
  IF op = "getLeafHashes" THEN getLeafHashes(db, channelId)
  ELSE getMessageCount(db, channelId)

\* one statement run by the engine on the tables the connection sees
run(db, s) ==
  CASE s.run = "REPLACE INTO messages" ->
         [db EXCEPT !.messages = replaceIntoMessages(@, rowOf(s.call.message))]
    [] s.run = "REPLACE INTO parents" ->
         [db EXCEPT !.parents =
            replaceIntoParents(@, s.call.message.channelId, s.hash)]
    [] s.run = "DELETE FROM messages" ->
         [db EXCEPT !.messages =
            SelectSeq(@, LAMBDA r : r.channel_id # s.call.channelId)]
    [] s.run = "DELETE FROM parents" ->
         [db EXCEPT !.parents = {p \in @ : p.channel_id # s.call.channelId}]
    [] OTHER -> db

-----------------------------------------------------------------------------
(* Entities *)

getEntityCount(db) == Cardinality(db.entities)

\* INSERT in place of REPLACE, without the unique index
storeEntityBesideTheOld(db, prefix, id, blob) ==
  [db EXCEPT !.entities =
     db.entities \cup {[prefix |-> prefix, id |-> id, blob |-> blob]}]

storeEntity(db, prefix, id, blob) ==
  [db EXCEPT !.entities =
     {e \in db.entities : ~(e.prefix = prefix /\ e.id = id)}
       \cup {[prefix |-> prefix, id |-> id, blob |-> blob]}]

retrieveEntity(db, prefix, id) ==
  LET rows == {e \in db.entities : e.prefix = prefix /\ e.id = id}
  IN  IF rows # {} THEN (CHOOSE e \in rows : TRUE).blob ELSE undefined

removeEntity(db, prefix, id) ==
  [db EXCEPT !.entities =
     {e \in db.entities : ~(e.prefix = prefix /\ e.id = id)}]

\* the ids leave a SELECT without ORDER BY: read as a set
getEntityKeys(db, prefix) == {e.id : e \in {r \in db.entities : r.prefix = prefix}}

\* the three DELETEs, all awaited before clear() resolves
clear(db) == [db EXCEPT !.messages = <<>>, !.parents = {}, !.entities = {}]

-----------------------------------------------------------------------------
(* open() *)

Tables == {"messages", "parents", "entities"}

\* a wipe also of the files of the current version
needsClearAtOrBelow(lastVersion) == lastVersion <= CURRENT_VERSION

\* lastVersion < CURRENT_VERSION
needsClear(lastVersion) == lastVersion < CURRENT_VERSION

-----------------------------------------------------------------------------
(* The caller: it awaits one operation at a time.  result holds what the   *)
(* awaited call produced until the caller takes it.                        *)

Idle == [op |-> "idle"]

\* where open() stands: the store the other methods are called on is open
Opened == [at |-> "opened"]

\* no transaction is open: the tables are the committed ones
NoJournal == [open |-> FALSE]

Init ==
  /\ messages = <<>>
  /\ parents = {}
  /\ entities = {}
  /\ transaction = FALSE
  /\ result = Idle
  /\ user_version = CURRENT_VERSION
  /\ pc = Opened
  /\ queue = <<>>
  /\ journal = NoJournal

\* addMessage: BEGIN is queued, then encodeHashList may throw out of the
\* serialize callback, before the REPLACEs and the COMMIT are queued
AddMessage(message) ==
  /\ result = Idle
  /\ IF encodeThrows(message.parents)
       THEN /\ transaction' = TRUE
            /\ journal' = IF transaction THEN journal ELSE DB
            /\ UNCHANGED <<messages, parents, entities, user_version, pc, queue>>
            /\ result' = [op |-> "addMessage", message |-> message, threw |-> TRUE]
       ELSE /\ messages' = addMessage(DB, message).messages
            /\ parents' = addMessage(DB, message).parents
            /\ transaction' = FALSE
            /\ journal' = NoJournal
            /\ UNCHANGED <<entities, user_version, pc, queue>>
            /\ result' = [op |-> "addMessage", message |-> message, threw |-> FALSE]

RemoveChannelMessages(channelId) ==
  /\ result = Idle
  /\ messages' = removeChannelMessages(DB, channelId).messages
  /\ parents' = removeChannelMessages(DB, channelId).parents
  /\ transaction' = FALSE
  /\ journal' = NoJournal
  /\ UNCHANGED <<entities, user_version, pc, queue>>
  /\ result' = [op |-> "removeChannelMessages", channelId |-> channelId]

GetMessageCount(channelId) ==
  /\ result = Idle
  /\ result' = [op |-> "getMessageCount", channelId |-> channelId,
                value |-> getMessageCount(DB, channelId)]
  /\ UNCHANGED <<messages, parents, entities, transaction, user_version, pc,
               queue, journal>>

GetLeafHashes(channelId) ==
  /\ result = Idle
  /\ result' = [op |-> "getLeafHashes", channelId |-> channelId,
                value |-> getLeafHashes(DB, channelId)]
  /\ UNCHANGED <<messages, parents, entities, transaction, user_version, pc,
               queue, journal>>

GetMessages(channelId, hashes) ==
  /\ result = Idle
  /\ result' = [op |-> "getMessages", channelId |-> channelId, hashes |-> hashes,
                threw |-> getMessages(DB, channelId, hashes).threw,
                value |-> getMessages(DB, channelId, hashes).value]
  /\ UNCHANGED <<messages, parents, entities, transaction, user_version, pc,
               queue, journal>>

GetHashesAtOffset(channelId, offset, limit) ==
  /\ result = Idle
  /\ result' = [op |-> "getHashesAtOffset", channelId |-> channelId,
                offset |-> offset, limit |-> limit,
                value |-> getHashesAtOffset(DB, channelId, offset, limit)]
  /\ UNCHANGED <<messages, parents, entities, transaction, user_version, pc,
               queue, journal>>

GetReverseHashesAtOffset(channelId, offset, limit) ==
  /\ result = Idle
  /\ result' = [op |-> "getReverseHashesAtOffset", channelId |-> channelId,
                offset |-> offset, limit |-> limit,
                value |-> getReverseHashesAtOffset(DB, channelId, offset, limit)]
  /\ UNCHANGED <<messages, parents, entities, transaction, user_version, pc,
               queue, journal>>

Query(channelId, cursor, isBackward, limit) ==
  /\ result = Idle
  /\ result' = [op |-> "query", channelId |-> channelId, cursor |-> cursor,
                isBackward |-> isBackward, limit |-> limit,
                value |-> query(DB, channelId, cursor, isBackward, limit)]
  /\ UNCHANGED <<messages, parents, entities, transaction, user_version, pc,
               queue, journal>>

StoreEntity(prefix, id, blob) ==
  /\ result = Idle
  /\ entities' = storeEntity(DB, prefix, id, blob).entities
  /\ result' = [op |-> "storeEntity", prefix |-> prefix, id |-> id, blob |-> blob]
  /\ UNCHANGED <<messages, parents, transaction, user_version, pc, queue, journal>>

RemoveEntity(prefix, id) ==
  /\ result = Idle
  /\ entities' = removeEntity(DB, prefix, id).entities
  /\ result' = [op |-> "removeEntity", prefix |-> prefix, id |-> id]
  /\ UNCHANGED <<messages, parents, transaction, user_version, pc, queue, journal>>

RetrieveEntity(prefix, id) ==
  /\ result = Idle
  /\ result' = [op |-> "retrieveEntity", prefix |-> prefix, id |-> id,
                value |-> retrieveEntity(DB, prefix, id)]
  /\ UNCHANGED <<messages, parents, entities, transaction, user_version, pc,
               queue, journal>>

GetEntityCount ==
  /\ result = Idle
  /\ result' = [op |-> "getEntityCount", value |-> getEntityCount(DB)]
  /\ UNCHANGED <<messages, parents, entities, transaction, user_version, pc,
               queue, journal>>

GetEntityKeys(prefix) ==
  /\ result = Idle
  /\ result' = [op |-> "getEntityKeys", prefix |-> prefix,
                value |-> getEntityKeys(DB, prefix)]
  /\ UNCHANGED <<messages, parents, entities, transaction, user_version, pc,
               queue, journal>>

\* clear() runs its DELETEs outside any BEGIN of its own
Clear ==
  /\ result = Idle
  /\ messages' = clear(DB).messages
  /\ parents' = clear(DB).parents
  /\ entities' = clear(DB).entities
  /\ result' = [op |-> "clear"]
  /\ UNCHANGED <<transaction, user_version, pc, queue, journal>>

\* the codec called on its own
EncodeHashList(list) ==
  /\ result = Idle
  /\ result' = [op |-> "encodeHashList", list |-> list,
                threw |-> encodeThrows(list),
                value |-> IF encodeThrows(list) THEN <<>> ELSE encodeHashList(list)]
  /\ UNCHANGED <<messages, parents, entities, transaction, user_version, pc,
               queue, journal>>

\* the buffer an encodeHashList call returned is handed to decodeHashList
DecodeHashList ==
  /\ result.op = "encodeHashList"
  /\ ~result.threw
  /\ result' = [op |-> "decodeHashList", list |-> result.list,
                data |-> result.value, value |-> decodeHashList(result.value)]
  /\ UNCHANGED <<messages, parents, entities, transaction, user_version, pc,
               queue, journal>>

\* open(), a step per await.  Up to the read of PRAGMA user_version:
\* createTables creates what is missing and keeps what the file holds
OpenReadVersion ==
  /\ pc.at = "closed"
  /\ pc' = IF needsClear(user_version)
             THEN [at |-> "clear", lastVersion |-> user_version, pending |-> Tables]
             ELSE [at |-> "write", lastVersion |-> user_version]
  /\ UNCHANGED <<messages, parents, entities, transaction, result, user_version,
               queue, journal>>

\* await this.clear(): its three DELETEs run in the order the engine takes
\* them, open() goes on when the last has run
OpenDelete(table) ==
  /\ pc.at = "clear"
  /\ table \in pc.pending
  /\ messages' = IF table = "messages" THEN <<>> ELSE messages
  /\ parents' = IF table = "parents" THEN {} ELSE parents
  /\ entities' = IF table = "entities" THEN {} ELSE entities
  /\ pc' = IF pc.pending = {table}
             THEN [at |-> "write", lastVersion |-> pc.lastVersion]
             ELSE [pc EXCEPT !.pending = @ \ {table}]
  /\ UNCHANGED <<transaction, result, user_version, queue, journal>>

\* PRAGMA user_version = CURRENT_VERSION, then open() resolves
OpenWriteVersion ==
  /\ pc.at = "write"
  /\ user_version' = CURRENT_VERSION
  /\ pc' = Opened
  /\ UNCHANGED <<messages, parents, entities, transaction, result, queue, journal>>

\* close(): the file keeps its tables and its user_version
Close ==
  /\ pc = Opened
  /\ result = Idle
  /\ pc' = [at |-> "closed"]
  /\ transaction' = FALSE
  /\ journal' = NoJournal
  /\ UNCHANGED <<messages, parents, entities, result, user_version, queue>>

\* a caller that pages through a channel: its first query.  pages is the
\* concatenation of the pages it has received, queries their number
PageFirst(channelId, cursor, isBackward, limit) ==
  /\ result = Idle
  /\ LET value == query(DB, channelId, cursor, isBackward, limit)
     IN  result' = [op |-> "page", channelId |-> channelId, cursor |-> cursor,
                    isBackward |-> isBackward, limit |-> limit, queries |-> 1,
                    pages |-> value.abbreviatedMessages, value |-> value]
  /\ UNCHANGED <<messages, parents, entities, transaction, user_version, pc,
               queue, journal>>

\* the cursor query returned for going on in the direction of the chain
nextCursor(r) ==
  IF r.isBackward THEN r.value.backwardHash ELSE r.value.forwardHash

\* the next query of the chain, anchored at the hash the last one returned;
\* a backward page goes before the pages received so far
PageNext ==
  /\ result.op = "page"
  /\ nextCursor(result) # null
  /\ LET value == query(DB, result.channelId, [hash |-> nextCursor(result)],
                        result.isBackward, result.limit)
     IN  result' = [result EXCEPT
                      !.queries = @ + 1,
                      !.value = value,
                      !.pages = IF result.isBackward
                                  THEN value.abbreviatedMessages \o @
                                  ELSE @ \o value.abbreviatedMessages]
  /\ UNCHANGED <<messages, parents, entities, transaction, user_version, pc,
               queue, journal>>

\* the statements the connection holds at most
MaxQueue == 8

\* Callers that do not wait for one another.  addMessage: the callback of
\* db.serialize() queues BEGIN, the REPLACEs and COMMIT in one go
CallAddMessage(message) ==
  /\ ~encodeThrows(message.parents)
  /\ Len(queue) + Len(addMessageStatements(message)) <= MaxQueue
  /\ queue' = queue \o addMessageStatements(message)
  /\ UNCHANGED <<messages, parents, entities, transaction, result, user_version,
                 pc, journal>>

CallRemoveChannelMessages(channelId) ==
  /\ Len(queue) + Len(removeChannelMessagesStatements(channelId)) <= MaxQueue
  /\ queue' = queue \o removeChannelMessagesStatements(channelId)
  /\ UNCHANGED <<messages, parents, entities, transaction, result, user_version,
                 pc, journal>>

\* a read handed over while serialized statements are at work waits its turn
CallRead(op, channelId) ==
  /\ Len(queue) < MaxQueue
  /\ queue' = Append(queue, statement("SELECT",
                       [op |-> op, channelId |-> channelId], null))
  /\ UNCHANGED <<messages, parents, entities, transaction, result, user_version,
                 pc, journal>>

\* a read handed over while no serialized statement is at work runs at
\* once, ahead of the transactions that wait in the queue
ReadAtOnce(op, channelId) ==
  /\ ~transaction
  /\ result' = [op |-> op, channelId |-> channelId,
                value |-> select(DB, op, channelId)]
  /\ UNCHANGED <<messages, parents, entities, transaction, user_version, pc,
                 queue, journal>>

\* the engine runs the statement at the head of the queue
Execute ==
  /\ queue # <<>>
  /\ LET s == Head(queue)
     IN  /\ queue' = Tail(queue)
         /\ messages' = run(DB, s).messages
         /\ parents' = run(DB, s).parents
         /\ transaction' = CASE s.run = "BEGIN" -> TRUE
                              [] s.run = "COMMIT" -> FALSE
                              [] OTHER -> transaction
         /\ journal' = CASE s.run = "BEGIN" -> IF transaction THEN journal ELSE DB
                          [] s.run = "COMMIT" -> NoJournal
                          [] OTHER -> journal
         /\ result' = IF s.run = "SELECT"
                        THEN [op |-> s.call.op, channelId |-> s.call.channelId,
                              value |-> select(DB, s.call.op, s.call.channelId)]
                        ELSE result
  /\ UNCHANGED <<entities, user_version, pc>>

\* the caller takes the result of the awaited call
Return ==
  /\ result # Idle
  /\ result' = Idle
  /\ UNCHANGED <<messages, parents, entities, transaction, user_version, pc,
               queue, journal>>

-----------------------------------------------------------------------------
(* Inputs *)

\* hashes: 'a' < 'ab' < 'b' byte-wise; 'x' is never stored
a == <<97>>

ab == <<97, 98>>

b == <<98>>

x == <<120>>

Hashes == {a, ab, b}

Channels == {"A", "B"}

\* parent lists of the messages of Spec
ParentLists == {<<>>, <<a>>, <<ab>>, <<b>>, <<ab, a>>}

\* messages of Spec: any hash in any channel with any of the parent lists
\* that does not hold the hash itself
Messages ==
  {m \in {[channelId |-> c, hash |-> h, height |-> IF p = <<>> THEN 0 ELSE 1,
           parents |-> p, data |-> h] :
             c \in Channels, h \in Hashes, p \in ParentLists} :
     m.hash \notin Range(m.parents)}

MaxHeight == 1

MaxLimit == 2

MaxOffset == 3

\* the parent list an ordered message carries: none at height 0, above it
\* a list of other hashes that depends on the hash
parentsOf(hash, height) ==
  IF height = 0 THEN <<>>
  ELSE IF hash = a THEN <<ab>>
  ELSE IF hash = ab THEN <<b, a>>
  ELSE <<a>>

\* messages of SpecQuery and SpecWindow: any hash in any channel at any height
OrderedMessages ==
  {[channelId |-> c, hash |-> h, height |-> n, parents |-> parentsOf(h, n),
    data |-> h] : c \in Channels, h \in Hashes, n \in 0..MaxHeight}

Cursors ==
  {[hash |-> h] : h \in Hashes \cup {x}} \cup {[height |-> n] : n \in 0..MaxHeight}

Limits == -1..MaxLimit

-----------------------------------------------------------------------------
(* Specifications *)

Next ==
  \/ \E m \in Messages : AddMessage(m)
  \/ \E c \in Channels : RemoveChannelMessages(c)
  \/ \E c \in Channels : GetLeafHashes(c)
  \/ \E c \in Channels : GetMessageCount(c)
  \/ Return

Spec == Init /\ [][Next]_vars

NextQuery ==
  \/ \E m \in OrderedMessages : AddMessage(m)
  \/ \E c \in Channels, cursor \in Cursors, isBackward \in BOOLEAN, limit \in Limits :
       Query(c, cursor, isBackward, limit)
  \/ StoreEntity("fake", "id", <<104>>)
  \/ Return

SpecQuery == Init /\ [][NextQuery]_vars

NextWindow ==
  \/ \E m \in OrderedMessages : AddMessage(m)
  \/ \E c \in Channels, offset \in 0..MaxOffset, limit \in 0..MaxLimit :
       GetHashesAtOffset(c, offset, limit)
  \/ \E c \in Channels, offset \in 0..MaxOffset, limit \in 0..MaxLimit :
       GetReverseHashesAtOffset(c, offset, limit)
  \/ Return

SpecWindow == Init /\ [][NextWindow]_vars

-----------------------------------------------------------------------------
(* The batched lookup on a long channel.  A store opened on an existing   *)
(* file (options.file) holds what earlier runs wrote: here a chain of n   *)
(* messages of channel "A", message i with hash hashOf(i), its parent      *)
(* message i - 1, written in that order.                                   *)

MaxRequest == 3

MaxExtra == 1

MaxRotate == 2

hashOf(i) == <<i \div 256, i % 256>>

chainMessage(i) ==
  [channelId |-> "A", hash |-> hashOf(i), height |-> i - 1,
   parents |-> IF i = 1 THEN <<>> ELSE <<hashOf(i - 1)>>,
   data |-> <<100, i \div 256, i % 256>>]

\* the tables after addMessage(chainMessage(1)), ..., addMessage(chainMessage(n))
chainMessages(n) ==
  [i \in 1..n |->
     [channel_id |-> "A", hash |-> hashOf(i),
      parent_hashes |-> encodeHashList(chainMessage(i).parents),
      height |-> i - 1, blob |-> chainMessage(i).data]]

chainParents(n) == {[channel_id |-> "A", hash |-> hashOf(i)] : i \in 1..(n - 1)}

ChainSizes ==
  (0..MaxRequest) \cup
  ((MAX_VARIABLE_COUNT - 1)..(MAX_VARIABLE_COUNT + MaxExtra))

InitBatch ==
  /\ \E n \in ChainSizes : messages = chainMessages(n) /\ parents = chainParents(n)
  /\ entities = {}
  /\ transaction = FALSE
  /\ result = Idle
  /\ user_version = CURRENT_VERSION
  /\ pc = Opened
  /\ queue = <<>>
  /\ journal = NoJournal

rotate(list, k) ==
  [i \in DOMAIN list |-> list[((i - 1 + k) % Len(list)) + 1]]

\* short requests: the lists of up to MaxRequest of the first hashes of the
\* chain, in any order and with repetitions
ShortRequests ==
  LET first == {hashOf(i) : i \in 1..Min(Len(messages), MaxRequest)}
  IN  UNION {[1..n -> first] : n \in 0..MaxRequest}

\* long requests: every hash of the channel, the list rotated by k
LongRequests ==
  IF Len(messages) <= MaxRequest THEN {}
  ELSE {rotate(hashesOf(messages), k) : k \in 0..MaxRotate}

NextBatch ==
  \/ /\ Len(messages) + 1 \in ChainSizes
     /\ AddMessage(chainMessage(Len(messages) + 1))
  \/ \E hashes \in ShortRequests \cup LongRequests : GetMessages("A", hashes)
  \/ Return

SpecBatch == InitBatch /\ [][NextBatch]_vars

-----------------------------------------------------------------------------
(* What the claims speak of, said without the operators above *)

\* byte-wise order of two byte strings
bytesLess(s, t) ==
  \E k \in 1..(Min(Len(s), Len(t)) + 1) :
    /\ \A j \in 1..(k - 1) : s[j] = t[j]
    /\ \/ k > Len(s) /\ k <= Len(t)
       \/ k <= Len(s) /\ k <= Len(t) /\ s[k] < t[k]

\* m1 comes before m2 in (height ascending, hash ascending)
precedes(m1, m2) ==
  \/ m1.height < m2.height
  \/ m1.height = m2.height /\ bytesLess(m1.hash, m2.hash)

\* the rows stored in channel c
stored(c) == {r \in Range(messages) : r.channel_id = c}

\* the rows of S as the list sorted by precedes
sortedList(S) ==
  [k \in 1..Cardinality(S) |->
     CHOOSE m \in S : Cardinality({o \in S : precedes(o, m)}) = k - 1]

\* L of channel c: its hashes sorted by (height, hash)
crdtList(c) == hashesOf(sortedList(stored(c)))

\* the elements of L at positions offset .. offset + limit - 1 (0-based)
window(L, offset, limit) ==
  [i \in 1..Max(0, Min(limit, Len(L) - offset)) |-> L[offset + i]]

-----------------------------------------------------------------------------
(* C1: getLeafHashes(c) returns exactly the hashes of the messages stored  *)
(* in c that no message currently stored in c lists as a parent.           *)

C1_LeavesAreTheUnreferencedMessages ==
  result.op = "getLeafHashes" =>
    result.value =
      {r.hash : r \in {m \in stored(result.channelId) :
         \A o \in stored(result.channelId) :
           m.hash \notin Range(decodeHashList(o.parent_hashes))}}

-----------------------------------------------------------------------------
(* C2: getHashesAtOffset(c, offset, limit) returns the elements at          *)
(* positions offset .. offset+limit-1 of L, getReverseHashesAtOffset those  *)
(* of the reversal of L, L being the hashes of c sorted by (height, hash);  *)
(* both are empty when offset is at or beyond the number of messages.       *)

C2_WindowsOfTheCrdtOrder ==
  /\ result.op = "getHashesAtOffset" =>
       /\ result.value =
            window(crdtList(result.channelId), result.offset, result.limit)
       /\ result.offset >= Len(crdtList(result.channelId)) => result.value = <<>>
  /\ result.op = "getReverseHashesAtOffset" =>
       /\ result.value =
            window(reverse(crdtList(result.channelId)), result.offset, result.limit)
       /\ result.offset >= Len(crdtList(result.channelId)) => result.value = <<>>

\* a window of two hashes past the first, over three messages of one channel
\* of which two share a height and were inserted against the hash order
C2_Witness ==
  /\ result.op = "getHashesAtOffset"
  /\ result.offset = 1
  /\ Len(result.value) = 2
  /\ Len(messages) = 3
  /\ \A i \in 1..3 : messages[i].channel_id = result.channelId
  /\ \E i, j \in 1..3 :
       /\ i < j
       /\ messages[i].height = messages[j].height
       /\ bytesLess(messages[j].hash, messages[i].hash)

-----------------------------------------------------------------------------
(* C3: the results of getHashesAtOffset, getReverseHashesAtOffset,          *)
(* getLeafHashes and query on a channel are the same for every order in     *)
(* which addMessage inserts a set of messages of that channel with pairwise *)
(* distinct hashes.                                                         *)

EmptyDB == [messages |-> <<>>, parents |-> {}, entities |-> {}]

\* the messages that the rows of the table were stored from, in rowid order
storedMessages ==
  [i \in DOMAIN messages |->
     [channelId |-> messages[i].channel_id, hash |-> messages[i].hash,
      height |-> messages[i].height,
      parents |-> decodeHashList(messages[i].parent_hashes),
      data |-> messages[i].blob]]

RECURSIVE insertAll(_, _, _)
\* the store after addMessage(list[k]), addMessage(list[k + 1]), ...
insertAll(db, list, k) ==
  IF k > Len(list) THEN db ELSE insertAll(addMessage(db, list[k]), list, k + 1)

\* everything the four reads return on channel c of store db
observations(db, c) ==
  [forward |-> [w \in (0..MaxOffset) \X (0..MaxLimit) |->
                  getHashesAtOffset(db, c, w[1], w[2])],
   reverse |-> [w \in (0..MaxOffset) \X (0..MaxLimit) |->
                  getReverseHashesAtOffset(db, c, w[1], w[2])],
   leaves |-> getLeafHashes(db, c),
   pages |-> [q \in Cursors \X BOOLEAN \X Limits |->
                query(db, c, q[1], q[2], q[3])]]

\* the store holds exactly what inserting its messages once each, in rowid
\* order, into an empty store yields, and they are all of channel c
insertedOnce(c) ==
  /\ \A i \in DOMAIN messages : messages[i].channel_id = c
  /\ insertAll(EmptyDB, storedMessages, 1) = DB

C3_OrderOfInsertionIsNotObservable ==
  \A c \in Channels :
    (result = Idle /\ insertedOnce(c)) =>
      \A p \in Permutations(DOMAIN messages) :
        observations(
          insertAll(EmptyDB, [i \in DOMAIN messages |-> storedMessages[p[i]]], 1),
          c) = observations(DB, c)

\* three messages of one channel, inserted once each, the last two at one
\* height and against the hash order
C3_Witness ==
  /\ result = Idle
  /\ insertedOnce("A")
  /\ Len(messages) = 3
  /\ messages[2].height = messages[3].height
  /\ bytesLess(messages[3].hash, messages[2].hash)
  /\ parents # {}

-----------------------------------------------------------------------------
(* The cursor query: what a returned page is measured against *)

isQuery == result.op = "query"

byHash == "hash" \in DOMAIN result.cursor

\* the rows of the queried channel that hold the cursor's hash: the anchor
anchors == {r \in stored(result.channelId) : r.hash = result.cursor.hash}

page == result.value.abbreviatedMessages

pageHashes == [i \in DOMAIN page |-> page[i].hash]

clamped == Max(0, result.limit)

\* the rows of the channel at or after the cursor, sorted by (height, hash)
atOrAfterCursor ==
  sortedList(
    IF byHash
      THEN {m \in stored(result.channelId) :
              \E o \in anchors : m = o \/ precedes(o, m)}
      ELSE {m \in stored(result.channelId) : m.height >= result.cursor.height})

\* the rows of the channel strictly before the anchor, sorted by (height, hash)
beforeAnchor ==
  sortedList({m \in stored(result.channelId) : \E o \in anchors : precedes(m, o)})

-----------------------------------------------------------------------------
(* C4: a forward query returns the first max(0, limit) messages of the      *)
(* channel, in (height, hash) order, among those at or after the anchor of  *)
(* a stored {hash} cursor (the anchor first) or of height >= the {height}   *)
(* cursor; only messages of the channel, each with the parent list it was   *)
(* stored with.                                                             *)

C4_ForwardPage ==
  (isQuery /\ ~result.isBackward /\ (byHash => anchors # {})) =>
    /\ ~result.value.threw
    /\ pageHashes = hashesOf(window(atOrAfterCursor, 0, clamped))
    /\ \A i \in DOMAIN page :
         /\ \E r \in stored(result.channelId) : r.hash = page[i].hash
         /\ page[i].parents =
              parentsOf(atOrAfterCursor[i].hash, atOrAfterCursor[i].height)
    /\ (byHash /\ page # <<>>) => page[1].hash = result.cursor.hash

\* a full page of two from a stored anchor, a third message left over, the
\* second row with two parents
C4_Witness ==
  /\ isQuery /\ ~result.isBackward /\ byHash /\ anchors # {}
  /\ result.limit = 2 /\ Len(page) = 2
  /\ page[1].hash = result.cursor.hash
  /\ Len(page[2].parents) = 2
  /\ result.value.forwardHash # null

-----------------------------------------------------------------------------
(* C5: a backward query from a stored {hash} cursor returns the             *)
(* max(0, limit) messages closest to the anchor among those strictly before *)
(* it, in ascending (height, hash) order, and never the anchor.             *)

C5_BackwardPage ==
  (isQuery /\ result.isBackward /\ byHash /\ anchors # {}) =>
    /\ ~result.value.threw
    /\ pageHashes =
         hashesOf(window(beforeAnchor, Max(0, Len(beforeAnchor) - clamped), clamped))
    /\ \A i \in DOMAIN page : page[i].hash # result.cursor.hash

\* two messages before the anchor, a page of the one next to it
C5_Witness ==
  /\ isQuery /\ result.isBackward /\ byHash /\ anchors # {}
  /\ result.limit = 1
  /\ Len(beforeAnchor) = 2
  /\ pageHashes = <<beforeAnchor[2].hash>>

-----------------------------------------------------------------------------
(* C6: when more than limit messages precede the anchor of a backward       *)
(* query, backwardHash is the hash of the earliest row that remains in the  *)
(* page (the neighbor of the dropped row), not of the dropped row; when at  *)
(* most limit messages precede it, backwardHash is null.                    *)

C6_BackwardHashIsTheEarliestRowOfThePage ==
  (isQuery /\ result.isBackward /\ byHash /\ anchors # {}) =>
    /\ (Len(beforeAnchor) > clamped /\ page # <<>>) =>
         result.value.backwardHash = page[1].hash
    /\ Len(beforeAnchor) <= clamped => result.value.backwardHash = null

-----------------------------------------------------------------------------
(* C7: in a forward query backwardHash is the hash of the first row of the  *)
(* page, and null whenever the page is empty, for every limit (0 and the    *)
(* negative limits clamped to 0 included).                                  *)

C7_ForwardBackwardHashIsTheFirstRowOfThePage ==
  (isQuery /\ ~result.isBackward) =>
    /\ page # <<>> => result.value.backwardHash = page[1].hash
    /\ page = <<>> => result.value.backwardHash = null

-----------------------------------------------------------------------------
(* C8: a query with a {hash} cursor whose hash is not stored in the queried *)
(* channel returns an empty page and both cursors null, forward and         *)
(* backward alike.                                                          *)

C8_UnknownAnchorGivesNothing ==
  (isQuery /\ byHash /\ anchors = {}) =>
    /\ page = <<>>
    /\ result.value.backwardHash = null
    /\ result.value.forwardHash = null

-----------------------------------------------------------------------------
(* C9: query with a {height} cursor and isBackward = true fails with the    *)
(* unsupported-operation error without a statement reaching the engine; it  *)
(* returns no page and leaves messages, parent edges and entities as they   *)
(* were.                                                                    *)

C9_BackwardByHeightIsRefused ==
  /\ [](isQuery /\ ~byHash /\ result.isBackward =>
          /\ result.value.threw
          /\ result.value.statements = 0
          /\ page = <<>>)
  /\ [][(result'.op = "query" /\ "hash" \notin DOMAIN result'.cursor
           /\ result'.isBackward) =>
          UNCHANGED <<messages, parents, entities>>]_vars

\* the refusal on a store that holds messages, parent edges and an entity
C9_Witness ==
  /\ isQuery /\ ~byHash /\ result.isBackward
  /\ result.value.threw
  /\ Len(messages) >= 2 /\ parents # {} /\ entities # {}

-----------------------------------------------------------------------------
(* C10: getMessages(c, hashes), for pairwise distinct hashes all stored in  *)
(* c and given in any order, returns at every index i the payload of the    *)
(* message with hash hashes[i], in one lookup and in several chunks alike.  *)

\* the payload stored in channel c under hash h
payloadOf(c, h) == (CHOOSE r \in stored(c) : r.hash = h).blob

C10_BatchedLookupKeepsTheInputOrder ==
  (/\ result.op = "getMessages"
   /\ \A i, j \in DOMAIN result.hashes :
        i # j => result.hashes[i] # result.hashes[j]
   /\ \A i \in DOMAIN result.hashes :
        \E r \in stored(result.channelId) : r.hash = result.hashes[i]) =>
    /\ ~result.threw
    /\ DOMAIN result.value = DOMAIN result.hashes
    /\ \A i \in DOMAIN result.hashes :
         result.value[i] = payloadOf(result.channelId, result.hashes[i])

\* the same statement for the lists that fit in one lookup
C10_OneLookupKeepsTheInputOrder ==
  (result.op = "getMessages" /\ Len(result.hashes) <= MAX_VARIABLE_COUNT) =>
    C10_BatchedLookupKeepsTheInputOrder

-----------------------------------------------------------------------------
(* The store with its entities: a caller that mixes message operations,    *)
(* entity operations and clear().                                          *)

Prefixes == {"fake", "real"}
Ids == {"id"}
Blobs == {<<104>>, <<105>>}

\* messages of both channels whose only possible parent is a
StoreMessages == {m \in Messages : m.parents \in {<<>>, <<a>>}}

NextStore ==
  \/ \E message \in StoreMessages : AddMessage(message)
  \/ \E channelId \in Channels : RemoveChannelMessages(channelId)
  \/ \E prefix \in Prefixes, id \in Ids, blob \in Blobs :
       StoreEntity(prefix, id, blob)
  \/ \E prefix \in Prefixes, id \in Ids : RemoveEntity(prefix, id)
  \/ \E prefix \in Prefixes, id \in Ids : RetrieveEntity(prefix, id)
  \/ \E prefix \in Prefixes : GetEntityKeys(prefix)
  \/ GetEntityCount
  \/ Clear
  \/ Return

SpecStore == Init /\ [][NextStore]_vars

-----------------------------------------------------------------------------
(* The codec on its own: lists of at most MaxList hashes, among them the   *)
(* empty hash, a hash of MAX_HASH_LENGTH bytes and one a byte longer.      *)

MaxList == 3

longest == [k \in 1..MAX_HASH_LENGTH |-> 7]
tooLong == [k \in 1..(MAX_HASH_LENGTH + 1) |-> 7]

CodecHashes == {<<>>, <<0>>, <<1, 0>>, <<255>>, longest, tooLong}
HashLists == UNION {[1..n -> CodecHashes] : n \in 0..MaxList}

NextCodec ==
  \/ \E list \in HashLists : EncodeHashList(list)
  \/ DecodeHashList
  \/ Return

SpecCodec == Init /\ [][NextCodec]_vars

-----------------------------------------------------------------------------
(* One channel written with messages some of which carry a parent hash of  *)
(* more than MAX_HASH_LENGTH bytes.                                        *)

InvalidMessages ==
  {[channelId |-> "A", hash |-> h, height |-> 1, parents |-> <<a, tooLong>>,
    data |-> h] : h \in Hashes}

ValidMessages == {m \in OrderedMessages : m.channelId = "A"}

NextInvalid ==
  \/ \E message \in ValidMessages \cup InvalidMessages : AddMessage(message)
  \/ \E channelId \in Channels : GetMessageCount(channelId)
  \/ Return

SpecInvalid == Init /\ [][NextInvalid]_vars

-----------------------------------------------------------------------------
(* Opening a file (options.file) that an earlier, the current or a later   *)
(* version of the program wrote, using it and closing it again.            *)

MaxVersion == 3
MaxStored == 2

InitOpen ==
  /\ \E n \in 0..MaxStored :
       messages = chainMessages(n) /\ parents = chainParents(n)
  /\ entities \in {{}, {[prefix |-> "fake", id |-> "id", blob |-> <<104>>]}}
  /\ transaction = FALSE
  /\ result = Idle
  /\ user_version \in 0..MaxVersion
  /\ pc = [at |-> "closed"]
  /\ queue = <<>>
  /\ journal = NoJournal

NextOpen ==
  \/ OpenReadVersion
  \/ \E table \in Tables : OpenDelete(table)
  \/ OpenWriteVersion
  \/ pc = Opened /\ StoreEntity("real", "id", <<105>>)
  \/ pc = Opened /\ Return
  \/ Close

SpecOpen == InitOpen /\ [][NextOpen]_vars

-----------------------------------------------------------------------------
(* Paging: between the writes a caller walks a channel page by page,       *)
(* forward from a height or backward from a hash, with a limit of at least *)
(* one, and goes on until the cursor it is handed is null.  The channel    *)
(* does not change during the walk.                                        *)

PageLimits == 1..MaxLimit

NextPaging ==
  \/ \E message \in OrderedMessages : AddMessage(message)
  \/ \E channelId \in Channels, height \in 0..MaxHeight, limit \in PageLimits :
       PageFirst(channelId, [height |-> height], FALSE, limit)
  \/ \E channelId \in Channels, hash \in Hashes, limit \in PageLimits :
       PageFirst(channelId, [hash |-> hash], TRUE, limit)
  \/ PageNext
  \/ (result.op = "page" => nextCursor(result) = null) /\ Return

\* the caller that pages does issue its next query
SpecPaging == Init /\ [][NextPaging]_vars /\ WF_vars(PageNext)

-----------------------------------------------------------------------------
(* Callers that do not wait: transactions and reads handed to the          *)
(* connection while earlier statements are still queued.                   *)

SerialMessages ==
  {m \in OrderedMessages :
     m.channelId = "A" /\ m.height = (IF m.hash = a THEN 0 ELSE 1)}

Reads == {"getLeafHashes", "getMessageCount"}

NextSerial ==
  \/ \E message \in SerialMessages : CallAddMessage(message)
  \/ CallRemoveChannelMessages("A")
  \/ \E op \in Reads : CallRead(op, "A")
  \/ \E op \in Reads : ReadAtOnce(op, "A")
  \/ Execute

SpecSerial == Init /\ [][NextSerial]_vars

-----------------------------------------------------------------------------
(* C11: getMessages(c, hashes) with a stored hash given more than once      *)
(* does not fail and returns an array as long as hashes, every position,    *)
(* the repeated ones included, holding the payload of its hash.             *)

C11_RepeatedHashesEachGetTheirPayload ==
  (/\ result.op = "getMessages"
   /\ \E i, j \in DOMAIN result.hashes :
        i # j /\ result.hashes[i] = result.hashes[j]
   /\ \A i \in DOMAIN result.hashes :
        \E r \in stored(result.channelId) : r.hash = result.hashes[i]) =>
    /\ ~result.threw
    /\ DOMAIN result.value = DOMAIN result.hashes
    /\ \A i \in DOMAIN result.hashes :
         result.value[i] = payloadOf(result.channelId, result.hashes[i])

-----------------------------------------------------------------------------
(* C13: once removeChannelMessages(c) has completed, channel c counts no    *)
(* message and has no leaf; for every other channel d the message count,    *)
(* the leaves and every window of getHashesAtOffset are what they were      *)
(* immediately before the call, and so are the entities.                    *)

C13_RemovalStaysInsideItsChannel ==
  [][\A c \in Channels :
       (result'.op = "removeChannelMessages" /\ result'.channelId = c) =>
         /\ getMessageCount(DB', c) = 0
         /\ getLeafHashes(DB', c) = {}
         /\ entities' = entities
         /\ \A d \in Channels \ {c} :
              /\ getMessageCount(DB', d) = getMessageCount(DB, d)
              /\ getLeafHashes(DB', d) = getLeafHashes(DB, d)
              /\ \A offset \in 0..MaxOffset, limit \in 0..MaxLimit :
                   getHashesAtOffset(DB', d, offset, limit)
                     = getHashesAtOffset(DB, d, offset, limit)]_vars

\* channel B was removed while A holds a message referenced in A, an edge
\* of A sits in the parents table and an entity is stored
C13_Witness ==
  /\ result.op = "removeChannelMessages"
  /\ result.channelId = "B"
  /\ getMessageCount(DB, "A") = 2
  /\ Cardinality(getLeafHashes(DB, "A")) = 1
  /\ entities # {}

-----------------------------------------------------------------------------
(* C17: retrieveEntity(p, i) returns the blob of the most recent            *)
(* storeEntity(p, i, blob) not followed by removeEntity(p, i) or clear(),   *)
(* and undefined otherwise; getEntityCount() is the number of distinct      *)
(* (prefix, id) pairs stored, so a second store under a key does not raise  *)
(* it and no message operation changes it.  Stated step by step: a store    *)
(* sets the value of its key, a removal or a clear unsets it, every other   *)
(* operation keeps it, and the calls return the value and the count.        *)

storesKey(r, p, i) == r.op = "storeEntity" /\ r.prefix = p /\ r.id = i

unsetsKey(r, p, i) ==
  \/ r.op = "removeEntity" /\ r.prefix = p /\ r.id = i
  \/ r.op = "clear"

storedKeys(db) ==
  {k \in Prefixes \X Ids : retrieveEntity(db, k[1], k[2]) # undefined}

C17_EntitiesFollowTheLastStore ==
  [][/\ \A p \in Prefixes, i \in Ids :
          retrieveEntity(DB', p, i) =
            IF storesKey(result', p, i) THEN result'.blob
            ELSE IF unsetsKey(result', p, i) THEN undefined
            ELSE retrieveEntity(DB, p, i)
     /\ getEntityCount(DB') = Cardinality(storedKeys(DB'))
     /\ result'.op = "retrieveEntity" =>
          result'.value = retrieveEntity(DB, result'.prefix, result'.id)
     /\ result'.op = "getEntityCount" =>
          result'.value = Cardinality(storedKeys(DB))
     /\ result'.op \in {"addMessage", "removeChannelMessages"} =>
          getEntityCount(DB') = getEntityCount(DB)]_vars

(* a key stored before has just been stored again with another blob, next  *)
(* to a second key and to stored messages                                  *)
C17_Witness ==
  /\ result.op = "storeEntity"
  /\ result.blob = <<105>>
  /\ retrieveEntity(DB, result.prefix, result.id) = <<105>>
  /\ getEntityCount(DB) = 2
  /\ messages # <<>>

-----------------------------------------------------------------------------
(* C15: for every list xs of hashes of 0 to 255 bytes each, the empty list  *)
(* and lists with empty hashes included, decodeHashList(encodeHashList(xs)) *)
(* is xs, element for element in the same order; encodeHashList throws on   *)
(* every list holding an element longer than 255 bytes.                     *)

C15_CodecRoundTrip ==
  /\ result.op = "encodeHashList" =>
       (result.threw <=> \E k \in DOMAIN result.list : Len(result.list[k]) > 255)
  /\ result.op = "decodeHashList" => result.value = result.list

\* a list with an empty hash next to a hash of 255 bytes went through both
C15_Witness ==
  /\ result.op = "decodeHashList"
  /\ Len(result.list) = 3
  /\ result.list[1] = <<>>
  /\ Len(result.list[2]) = 255
  /\ result.list[3] = <<>>
  /\ result.value = result.list

-----------------------------------------------------------------------------
(* C14: addMessage of a message with a parent hash of more than 255 bytes   *)
(* fails before anything is written: the call throws, no row of messages    *)
(* or parents is added or replaced, and no transaction has been begun or    *)
(* is left open, so that the store is as if the call had never happened.    *)

C14_InvalidHashLeavesNoTrace ==
  [][(/\ result'.op = "addMessage"
      /\ \E k \in DOMAIN result'.message.parents :
           Len(result'.message.parents[k]) > 255) =>
       /\ result'.threw
       /\ messages' = messages
       /\ parents' = parents
       /\ ~transaction'
       /\ transaction' = transaction]_vars

-----------------------------------------------------------------------------
(* C16: when open() completes the stored version marker is CURRENT_VERSION; *)
(* if the marker found at open was lower, every message, parent edge and    *)
(* entity has been deleted and the deletion is finished before the new      *)
(* marker is written; if the marker found was equal or higher, open()       *)
(* deletes no message, edge or entity.                                      *)

C16_OpenWipesOlderFilesOnly ==
  [][/\ (pc.at = "closed" /\ pc'.at # "closed") =>
          /\ pc'.lastVersion = user_version
          /\ UNCHANGED <<messages, parents, entities, user_version>>
     /\ pc.at = "clear" => user_version' = user_version
     /\ (pc.at # "opened" /\ pc'.at = "opened") =>
          /\ user_version' = CURRENT_VERSION
          /\ pc.lastVersion < CURRENT_VERSION =>
               /\ messages = <<>> /\ parents = {} /\ entities = {}
               /\ messages' = <<>> /\ parents' = {} /\ entities' = {}
     /\ (pc.at \in {"clear", "write"} /\ pc.lastVersion >= CURRENT_VERSION) =>
          UNCHANGED <<messages, parents, entities>>]_vars

\* open() found an older marker on a file with messages and edges and is
\* deleting: the messages are gone, the edges are not yet, the marker is old
C16_Witness ==
  /\ pc.at = "clear"
  /\ pc.pending = {"parents"}
  /\ messages = <<>>
  /\ parents # {}
  /\ user_version = pc.lastVersion
  /\ user_version < CURRENT_VERSION

-----------------------------------------------------------------------------
(* C18: addMessage of a message of channel B never changes getLeafHashes(A) *)
(* of another channel A, whatever hashes the parent list of the message     *)
(* holds, hashes of messages stored in A included: a message of A that a    *)
(* message of A references stays a non-leaf of A.  Stated for the messages  *)
(* whose own hash is not stored yet.                                        *)

C18_OtherChannelsKeepTheirLeaves ==
  [][\A A \in Channels :
       (/\ result'.op = "addMessage"
        /\ ~result'.threw
        /\ result'.message.channelId # A
        /\ \A r \in Range(messages) : r.hash # result'.message.hash) =>
         getLeafHashes(DB', A) = getLeafHashes(DB, A)]_vars

-----------------------------------------------------------------------------
(* C19: backward pagination is complete: with a limit of at least 1, from   *)
(* a backward query anchored at a stored hash h and on through the          *)
(* backwardHash of each page until it is null, the pages, later pages       *)
(* first, are the list of all messages of the channel strictly before h in  *)
(* (height, hash) order, each once and none skipped.                        *)

walked == [i \in DOMAIN result.pages |-> result.pages[i].hash]

C19_BackwardPagesCoverAllBeforeTheAnchor ==
  (/\ result.op = "page"
   /\ result.isBackward
   /\ anchors # {}
   /\ result.value.backwardHash = null) =>
    walked = hashesOf(beforeAnchor)

-----------------------------------------------------------------------------
(* C20: forward pagination is complete and terminates: with a limit of at   *)
(* least 1, from a forward query at {height: 0} and on through the          *)
(* forwardHash of each page until it is null, the pages concatenated are    *)
(* the full (height, hash) ordered list of the channel, each message once;  *)
(* forwardHash is non-null exactly when messages exist after the last row   *)
(* of the page; the chain ends after finitely many queries.                 *)

forwardFromZero ==
  /\ result.op = "page"
  /\ ~result.isBackward
  /\ result.cursor = [height |-> 0]

C20_ForwardPagesCoverTheChannel ==
  /\ [](forwardFromZero =>
          LET L == crdtList(result.channelId)
          IN  /\ Len(walked) <= Len(L)
              /\ walked = SubSeq(L, 1, Len(walked))
              /\ result.value.forwardHash # null <=> Len(walked) < Len(L)
              /\ result.value.forwardHash = null => walked = L
              /\ result.queries <= Max(1, Len(L)))
  /\ forwardFromZero ~> (forwardFromZero /\ result.value.forwardHash = null)

\* a channel of three messages walked in three pages of one
C20_Witness ==
  /\ forwardFromZero
  /\ result.limit = 1
  /\ result.queries = 3
  /\ Len(walked) = 3
  /\ result.value.forwardHash = null
  /\ walked = crdtList(result.channelId)

-----------------------------------------------------------------------------
(* C12: addMessage(m) is atomic with respect to every other operation on    *)
(* the store: however addMessage, removeChannelMessages and the reads are   *)
(* interleaved, no read observes the row of m without the edge rows of all  *)
(* the parents of m, nor some of those edges without the row, and the       *)
(* committed state holds the row and all its edges or none of them.         *)
(* Stated on the committed tables: every read returns what the committed    *)
(* tables give, and the committed tables change only at a COMMIT, by the    *)
(* whole of the call that is committed.                                     *)

\* the tables as committed: those of the BEGIN while a transaction is open
committed == IF transaction THEN journal ELSE DB

whole(db, call) ==
  IF call.op = "addMessage" THEN addMessage(db, call.message)
  ELSE removeChannelMessages(db, call.channelId)

\* a step that runs a read: a SELECT leaves the queue, or a read runs at
\* once and the queue stays as it is
readRuns ==
  \/ queue # <<>> /\ Head(queue).run = "SELECT" /\ queue' = Tail(queue)
  \/ queue' = queue /\ result'.op \in Reads

C12_TransactionsAreSeenWholeOrNotAtAll ==
  [][/\ readRuns =>
          result'.value = select(committed, result'.op, result'.channelId)
     /\ committed' # committed =>
          /\ queue # <<>>
          /\ Head(queue).run = "COMMIT"
          /\ committed' = whole(committed, Head(queue).call)]_vars

\* the row of b is written, its edge is not yet, and a read waits behind
\* the COMMIT
C12_Witness ==
  /\ transaction
  /\ \E r \in Range(messages) : r.hash = b
  /\ \A r \in Range(journal.messages) : r.hash # b
  /\ \A p \in parents : p.hash # a
  /\ Len(queue) = 3
  /\ queue[1].run = "REPLACE INTO parents"
  /\ queue[2].run = "COMMIT"
  /\ queue[3].run = "SELECT"

====
